---------------------------- MODULE Spec2Model ----------------------------
(***************************************************************************)
(* Fog gateway of the IoT security simulation: the broker worker           *)
(* (fog/app/mqtt_worker.py), the probe client (fog/app/coap_client.py),    *)
(* the cloud forwarder (fog/app/main.py), the rate limiter                 *)
(* (fog/app/ratelimit/limiter.py) and the timestamp gate                   *)
(* (fog/app/core/time.py).                                                 *)
(*                                                                         *)
(* Time is counted in whole seconds.  Token counts are kept in units of    *)
(* 1/60 token, so that refill_rate = messages_per_minute / 60.0 tokens per *)
(* second is exact.  The broker callback creates one asyncio task per      *)
(* message; a task runs without interleaving up to its first suspension    *)
(* point, the HTTP POST, and tasks start in creation order, so the         *)
(* callback together with that synchronous prefix is one step here (the    *)
(* callback is taken to run on the event loop's thread).                   *)
(***************************************************************************)
EXTENDS Integers, Sequences, FiniteSets, TLC

VARIABLES
    now,            \* time.time(), in seconds
    limiters,       \* RateLimiter.limiters: sensor_id -> bucket
    rate_limiter,   \* RateLimiter: messages_per_minute, burst_capacity, algorithm
    rl_stats,       \* RateLimiter.stats
    nonce_cache,    \* MQTTWorker.nonce_cache (LRU order, oldest first)
    stats,          \* MQTTWorker.stats
    coap_stats,     \* CoAPClient.stats
    app_stats,      \* main.app_stats
    inflight,       \* the send_to_cloud calls waiting for their POST to return
    done,           \* the send_to_cloud call that returned last, and its outcome
    last,           \* the message handled by the latest step and its verdict
    seen,           \* nonces of the broker messages accepted so far
    admit_log,      \* per sensor, the times of the admitted limiter calls
    tv,             \* timestamp gate: the latest call and what it returned
    tasks,          \* concurrent check_rate_limit callers: where each one is
    hv,             \* signing: a signed dict, the dict verified against it, the verdict
    handled,        \* the nonce of each broker message so far and how it ended
    ready,          \* the event loop's tasks created by _on_message and not yet run
    conn,           \* lifespan, broker session and clients: where each one is
    config          \* FogConfig.security: the enable_* switches and the sensors' keys

vars == <<now, rate_limiter, handled, ready, tasks, hv, limiters, rl_stats,
          nonce_cache, stats, coap_stats, app_stats, inflight, done, last,
          seen, admit_log, tv, conn, config>>

----------------------------------------------------------------------------
(* Bounds of the model and configuration values                            *)

MaxTime == 1
MaxMsgs == 2
MaxCalls == 4
MaxRateTime == 4
MaxClock == 2
MaxSkew == 3
MaxWindow == 2
MaxTasks == 3
MaxFields == 3
CallsPerTask == 2
MaxConnects == 2

\* SecurityConfig.timestamp_window_seconds, RateLimitConfig.burst_capacity,
\* SecurityConfig.nonce_cache_size: configuration values, scaled down.
timestamp_window_seconds == 2
burst_capacity == 1
nonce_cache_size == 2

\* RateLimitConfig.messages_per_minute, at its default.
messages_per_minute == 60

\* refill_rate = messages_per_minute / 60.0: one token is 60 units.
TokenUnit == 60

\* Capacity of the forwarder's channel (spec 4.10), scaled down.
QueueCapacity == 1

\* SecurityConfig: the four kill switches, as configured
enable_signature_verification == config.enable_signature_verification
enable_timestamp_validation == config.enable_timestamp_validation
enable_nonce_validation == config.enable_nonce_validation
enable_rate_limiting == config.enable_rate_limiting

----------------------------------------------------------------------------
(* Values                                                                  *)

None == <<>>
Some(x) == <<x>>

Min(a, b) == IF a <= b THEN a ELSE b
Max(a, b) == IF a >= b THEN a ELSE b
Abs(x) == IF x < 0 THEN -x ELSE x

TopicIds == {"temp-01", "wind-01"}
EnvelopeIds == {"temp-01", "humidity-01"}
Nonces == {"n1", "n2"}

\* load_config: the key of each known sensor; SENSOR_WIND_HMAC_KEY is unset.
DefaultKeys ==
    [s \in {"temp-01", "humidity-01", "wind-01"} |->
        CASE s = "temp-01" -> "k_temp"
          [] s = "humidity-01" -> "k_hum"
          [] OTHER -> ""]

\* SecurityConfig as load_config builds it: every switch defaults to true
SecurityConfig(keys, signature, timestamp, nonce, rate) ==
    [sensor_hmac_keys |-> keys,
     enable_signature_verification |-> signature,
     enable_timestamp_validation |-> timestamp,
     enable_nonce_validation |-> nonce,
     enable_rate_limiting |-> rate]

DefaultConfig == SecurityConfig(DefaultKeys, TRUE, TRUE, TRUE, TRUE)

\* SecurityConfig.sensor_hmac_keys
sensor_hmac_keys == config.sensor_hmac_keys

\* dict.get: None for an unknown sensor
KeyIn(keys, sensor_id) ==
    IF sensor_id \in DOMAIN keys THEN keys[sensor_id] ELSE ""

\* The key configured for a sensor
KeyOf(sensor_id) == KeyIn(sensor_hmac_keys, sensor_id)

----------------------------------------------------------------------------
(* core/time.py                                                            *)

\* An ISO timestamp string: its seconds field and its UTC offset suffix.
TzOffset(tz) == CASE tz = "Z" -> 0 [] tz = "+00:00" -> 0 [] tz = "+00:00:01" -> 1 [] OTHER -> 0

IsoTs(sec, tz) == [form |-> "iso", sec |-> sec, tz |-> tz]
BadTs(form) == [form |-> form, sec |-> 0, tz |-> ""]

\* parse_iso_timestamp: None when fromisoformat raises
parse_iso_timestamp(ts) ==
    IF ts.form = "iso" /\ ts.tz \in {"Z", "+00:00", "+00:00:01"}
    THEN Some(ts.sec - TzOffset(ts.tz))
    ELSE None

\* A gate that excludes the boundary of the window.
is_timestamp_valid_strict(ts, window_seconds, current_time) ==
    LET timestamp == parse_iso_timestamp(ts) IN
    IF timestamp = None THEN FALSE
    ELSE Abs(current_time - timestamp[1]) < window_seconds

is_timestamp_valid(ts, window_seconds, current_time) ==
    LET timestamp == parse_iso_timestamp(ts) IN
    IF timestamp = None THEN FALSE
    ELSE Abs(current_time - timestamp[1]) <= window_seconds

\* get_timestamp_age
get_timestamp_age(ts, current_time) ==
    LET timestamp == parse_iso_timestamp(ts) IN
    IF timestamp = None THEN None ELSE Some(current_time - timestamp[1])

----------------------------------------------------------------------------
(* security/hmac.py                                                        *)

\* _canonicalize_payload: the payload without sig, keys sorted
canonicalize_payload(payload) ==
    [f \in (DOMAIN payload) \ {"sig"} |-> payload[f]]

\* generate_hmac_signature: the keyed hash is taken to be injective
generate_hmac_signature(payload, key) == <<key, canonicalize_payload(payload)>>

\* Keys that are not strings of hex digits
NonHexKeys == {"not-hex-key"}

\* bytes.fromhex(key) raises ValueError on such a key, and with it
\* generate_hmac_signature
fromhex_raises(key) == key \in NonHexKeys

\* A sig that is not the base64 of any digest, and one that holds a
\* character outside ASCII
GarbledSig == <<"garbled">>
NonAsciiSig == <<"non-ascii">>

\* hmac.compare_digest raises TypeError on a str that is not ASCII
compare_digest_raises(signature) == signature = NonAsciiSig

\* The try block of verify_hmac_signature: the value it returns, or the
\* exception it raises
verify_try(payload, signature, key) ==
    IF fromhex_raises(key) THEN "ValueError"
    ELSE IF compare_digest_raises(signature) THEN "TypeError"
    ELSE IF signature = generate_hmac_signature(payload, key) THEN "True"
    ELSE "False"

\* A verifier without its except clause.
verify_hmac_signature_uncaught(payload, signature, key) ==
    verify_try(payload, signature, key)

\* verify_hmac_signature: "except Exception: return False"
verify_hmac_signature(payload, signature, key) ==
    IF verify_try(payload, signature, key) = "True" THEN "True" ELSE "False"

\* The same functions on a Python dict as it is: a sequence of <<key,
\* value>> items in insertion order, the keys distinct.

\* The order of sorted() on the keys that occur
KeyRank(k) ==
    CASE k = "nonce" -> 1 [] k = "sig" -> 2 [] k = "unit" -> 3 [] k = "value" -> 4
      [] OTHER -> 5

\* del d[k]
dict_del(d, k) == SelectSeq(d, LAMBDA item : item[1] # k)

\* json.dumps(d, sort_keys=True, separators=(',', ':')): the items in the
\* order of their keys; the text determines them and they determine it
RECURSIVE json_dumps_sorted(_)
json_dumps_sorted(d) ==
    IF d = <<>> THEN <<>>
    ELSE LET least == CHOOSE i \in 1..Len(d) :
                          \A j \in 1..Len(d) : KeyRank(d[i][1]) <= KeyRank(d[j][1])
         IN  <<d[least]>>
             \o json_dumps_sorted(SubSeq(d, 1, least - 1) \o SubSeq(d, least + 1, Len(d)))

\* json.dumps without sort_keys: the items in insertion order.
canonicalize_dict_unsorted(d) == dict_del(d, "sig")

\* _canonicalize_payload
canonicalize_dict(d) == json_dumps_sorted(dict_del(d, "sig"))

\* A signature that does not depend on the key.
generate_dict_signature_unkeyed(d, key) == <<"", canonicalize_dict(d)>>

\* generate_hmac_signature
generate_dict_signature(d, key) == <<key, canonicalize_dict(d)>>

\* verify_hmac_signature
verify_dict_signature(d, signature, key) == signature = generate_dict_signature(d, key)

----------------------------------------------------------------------------
(* security/aead.py                                                        *)

Absent == "absent"

\* The plaintext a well-formed ciphertext decrypts to.
Plaintext == [value |-> Some(19), type |-> "temperature"]

\* is_payload_encrypted
is_payload_encrypted(payload) ==
    payload.enc /\ payload.encrypted_data # Absent

\* What decrypt_payload and json.loads make of a ciphertext, as far as
\* result.update(decrypted_data) reads it: "ct_ok" holds the object
\* Plaintext, "ct_notype" holds it without its type, "ct_pairs" holds the
\* JSON array [["value", 19], ["type", "temperature"]], which dict.update
\* takes as key/value pairs; "ct_bad" fails the tag check (or the base64
\* decoding), "ct_notjson" authenticates but is no JSON text
PlaintextOf(ct) ==
    CASE ct \in {"ct_ok", "ct_pairs"} ->
            Some([value |-> Plaintext.value, type |-> Some(Plaintext.type)])
      [] ct = "ct_notype" -> Some([value |-> Plaintext.value, type |-> None])
      [] OTHER -> None

\* result.update(decrypted_data) raises (TypeError, ValueError) when the
\* plaintext is JSON text that is neither an object nor a list of pairs:
\* "ct_scalar" authenticates and holds a number.  Only JSONDecodeError is
\* caught, so decrypt_sensor_payload raises too
update_raises(ct) == ct = "ct_scalar"

\* decrypt_sensor_payload, for an encrypted payload: None when decryption
\* or json.loads fails, else the payload updated with the plaintext's
\* fields
decrypt_sensor_payload(payload) ==
    LET decrypted_data == PlaintextOf(payload.encrypted_data) IN
    IF decrypted_data = None
    THEN None
    ELSE Some([value |-> decrypted_data[1].value,
               type |-> IF decrypted_data[1].type = None
                        THEN payload.type
                        ELSE decrypted_data[1].type[1]])

----------------------------------------------------------------------------
(* ratelimit/limiter.py                                                    *)

NoBucket == [exists |-> FALSE]

\* TokenBucket.__init__: the bucket starts full.  refill_rate is kept as
\* the per-minute rate it is computed from.
TokenBucket(capacity, refill_rate, t) ==
    [exists |-> TRUE, capacity |-> capacity, refill_rate |-> refill_rate,
     tokens |-> capacity * TokenUnit, last_refill |-> t]

\* LeakyBucket.__init__: the bucket starts empty
LeakyBucket(capacity, leak_rate, t) ==
    [exists |-> TRUE, capacity |-> capacity, leak_rate |-> leak_rate,
     level |-> 0, last_leak |-> t]

\* RateLimiter.__init__
RateLimiter(mpm, burst, algorithm) ==
    [messages_per_minute |-> mpm, burst_capacity |-> burst, algorithm |-> algorithm]

\* _get_limiter: the sensor's bucket, created on first sight
get_limiter(rl, lims, sensor_id, t) ==
    IF lims[sensor_id].exists
    THEN lims[sensor_id]
    ELSE IF rl.algorithm = "token_bucket"
         THEN TokenBucket(rl.burst_capacity, rl.messages_per_minute, t)
         ELSE LeakyBucket(rl.burst_capacity, rl.messages_per_minute, t)

\* A bucket whose refill is not capped at its capacity.
consume_uncapped(bucket, t) ==
    LET elapsed == t - bucket.last_refill
        refilled == bucket.tokens + elapsed * bucket.refill_rate
    IN  IF refilled >= TokenUnit
        THEN [bucket |-> [bucket EXCEPT !.tokens = refilled - TokenUnit, !.last_refill = t],
              allowed |-> TRUE]
        ELSE [bucket |-> [bucket EXCEPT !.tokens = refilled, !.last_refill = t],
              allowed |-> FALSE]

\* A bucket that checks for a token before it refills.
consume_check_first(bucket, t) ==
    LET elapsed == t - bucket.last_refill
        refilled == Min(bucket.capacity * TokenUnit,
                        bucket.tokens + elapsed * bucket.refill_rate)
    IN  IF bucket.tokens >= TokenUnit
        THEN [bucket |-> [bucket EXCEPT !.tokens = refilled - TokenUnit, !.last_refill = t],
              allowed |-> TRUE]
        ELSE [bucket |-> [bucket EXCEPT !.tokens = refilled, !.last_refill = t],
              allowed |-> FALSE]

\* A bucket that admits without taking the token.
consume_untaken(bucket, t) ==
    LET elapsed == t - bucket.last_refill
        refilled == Min(bucket.capacity * TokenUnit,
                        bucket.tokens + elapsed * bucket.refill_rate)
    IN  [bucket |-> [bucket EXCEPT !.tokens = refilled, !.last_refill = t],
         allowed |-> refilled >= TokenUnit]

\* TokenBucket.consume(tokens=1) at time t: refill for the elapsed time,
\* then take one token if there is one
consume(bucket, t) ==
    LET elapsed == t - bucket.last_refill
        refilled == Min(bucket.capacity * TokenUnit,
                        bucket.tokens + elapsed * bucket.refill_rate)
    IN  IF refilled >= TokenUnit
        THEN [bucket |-> [bucket EXCEPT !.tokens = refilled - TokenUnit, !.last_refill = t],
              allowed |-> TRUE]
        ELSE [bucket |-> [bucket EXCEPT !.tokens = refilled, !.last_refill = t],
              allowed |-> FALSE]

\* A leaky bucket that keeps its last place free.
add_strict(bucket, t) ==
    LET elapsed == t - bucket.last_leak
        leaked == Max(0, bucket.level - elapsed * bucket.leak_rate)
    IN  IF leaked + TokenUnit < bucket.capacity * TokenUnit
        THEN [bucket |-> [bucket EXCEPT !.level = leaked + TokenUnit, !.last_leak = t],
              allowed |-> TRUE]
        ELSE [bucket |-> [bucket EXCEPT !.level = leaked, !.last_leak = t],
              allowed |-> FALSE]

\* LeakyBucket.add(amount=1) at time t: leak for the elapsed time, then add
\* one item if it fits
add(bucket, t) ==
    LET elapsed == t - bucket.last_leak
        leaked == Max(0, bucket.level - elapsed * bucket.leak_rate)
    IN  IF leaked + TokenUnit <= bucket.capacity * TokenUnit
        THEN [bucket |-> [bucket EXCEPT !.level = leaked + TokenUnit, !.last_leak = t],
              allowed |-> TRUE]
        ELSE [bucket |-> [bucket EXCEPT !.level = leaked, !.last_leak = t],
              allowed |-> FALSE]

NoStats == [total_requests |-> 0, allowed_requests |-> 0, blocked_requests |-> 0]

\* A limiter that keeps one bucket for all sensors.
check_rate_limit_shared(rl, lims, st, sensor_id, t) ==
    LET limiter == get_limiter(rl, lims, sensor_id, t)
        r == IF rl.algorithm = "token_bucket" THEN consume(limiter, t) ELSE add(limiter, t)
    IN  [limiters |-> [s \in DOMAIN lims |-> r.bucket],
         stats |-> [st EXCEPT ![sensor_id] =
                      [total_requests |-> @.total_requests + 1,
                       allowed_requests |-> @.allowed_requests + (IF r.allowed THEN 1 ELSE 0),
                       blocked_requests |-> @.blocked_requests + (IF r.allowed THEN 0 ELSE 1)]],
         allowed |-> r.allowed]

\* RateLimiter.check_rate_limit
check_rate_limit(rl, lims, st, sensor_id, t) ==
    LET limiter == get_limiter(rl, lims, sensor_id, t)
        r == IF rl.algorithm = "token_bucket" THEN consume(limiter, t) ELSE add(limiter, t)
    IN  [limiters |-> [lims EXCEPT ![sensor_id] = r.bucket],
         stats |-> [st EXCEPT ![sensor_id] =
                      [total_requests |-> @.total_requests + 1,
                       allowed_requests |-> @.allowed_requests + (IF r.allowed THEN 1 ELSE 0),
                       blocked_requests |-> @.blocked_requests + (IF r.allowed THEN 0 ELSE 1)]],
         allowed |-> r.allowed]

----------------------------------------------------------------------------
(* cachetools.LRUCache as used by the broker worker                        *)

cache_contains(cache, n) == \E i \in 1..Len(cache) : cache[i] = n

\* LRUCache.__setitem__: evict the least recently used entry when full
cache_set(cache, n) ==
    IF cache_contains(cache, n)
    THEN SelectSeq(cache, LAMBDA x : x # n) \o <<n>>
    ELSE IF Len(cache) >= nonce_cache_size
         THEN Tail(cache) \o <<n>>
         ELSE Append(cache, n)

\* A test of whether there is a cache, not of whether it holds anything.
nonce_cache_present(cache) == TRUE

\* "if self.nonce_cache and ...": the truth value of the cache object,
\* a mapping, is that of its length
nonce_cache_enabled(cache) == Len(cache) > 0

----------------------------------------------------------------------------
(* models/telemetry.py                                                     *)

\* TelemetryPayload(**payload): the structural parse; ts must parse and
\* ver must be 1
TelemetryPayloadOk(payload) ==
    /\ parse_iso_timestamp(payload.ts) # None
    /\ payload.ver = 1

\* CloudTelemetryDTO.from_processed
from_processed(telemetry) ==
    [sensor_id |-> telemetry.sensor_id,
     value |-> telemetry.value,
     sensor_type |-> telemetry.sensor_type,
     security_validated |-> (telemetry.signature_valid /\ telemetry.timestamp_valid
                             /\ telemetry.nonce_valid /\ telemetry.rate_limit_passed)]

----------------------------------------------------------------------------
(* mqtt_worker.py: MQTTWorker._validate_telemetry                          *)

\* The value, type and decryption verdict after the "decrypt if needed" step
Decrypted(payload) ==
    IF is_payload_encrypted(payload)
    THEN LET d == decrypt_sensor_payload(payload) IN
         IF d # None
         THEN [value |-> d[1].value, sensor_type |-> d[1].type, decrypted |-> TRUE,
               errors |-> <<>>, events |-> <<>>]
         ELSE [value |-> payload.value, sensor_type |-> payload.type, decrypted |-> FALSE,
               errors |-> <<"Failed to decrypt payload">>, events |-> <<"decryption_failed">>]
    ELSE [value |-> payload.value, sensor_type |-> payload.type, decrypted |-> FALSE,
          errors |-> <<>>, events |-> <<>>]

\* A signature step that pays no attention to its switch.
SignatureStep_unswitched(cfg, sensor_id, payload, invalid_event) ==
    LET hmac_key == KeyIn(cfg.sensor_hmac_keys, sensor_id)
        verdict == verify_hmac_signature(payload, payload.sig, hmac_key)
    IN
    IF hmac_key = ""
    THEN [ok |-> FALSE, errors |-> <<"No HMAC key configured for sensor">>,
          events |-> <<>>, raised |-> FALSE]
    ELSE IF payload.sig = <<>>
    THEN [ok |-> FALSE, errors |-> <<"Missing signature">>, events |-> <<>>,
          raised |-> FALSE]
    ELSE IF verdict = "True"
    THEN [ok |-> TRUE, errors |-> <<>>, events |-> <<>>, raised |-> FALSE]
    ELSE IF verdict = "False"
    THEN [ok |-> FALSE, errors |-> <<"Invalid HMAC signature">>,
          events |-> <<invalid_event>>, raised |-> FALSE]
    ELSE [ok |-> FALSE, errors |-> <<>>, events |-> <<>>, raised |-> TRUE]

\* The signature step under the configuration cfg: the key is looked up
\* under sensor_id; an exception out of the verifier would leave the step
\* without a verdict
SignatureStep(cfg, sensor_id, payload, invalid_event) ==
    LET hmac_key == KeyIn(cfg.sensor_hmac_keys, sensor_id)
        verdict == verify_hmac_signature(payload, payload.sig, hmac_key)
    IN
    IF ~cfg.enable_signature_verification
    THEN [ok |-> TRUE, errors |-> <<>>, events |-> <<>>, raised |-> FALSE]
    ELSE IF hmac_key = ""
    THEN [ok |-> FALSE, errors |-> <<"No HMAC key configured for sensor">>,
          events |-> <<>>, raised |-> FALSE]
    ELSE IF payload.sig = <<>>
    THEN [ok |-> FALSE, errors |-> <<"Missing signature">>, events |-> <<>>,
          raised |-> FALSE]
    ELSE IF verdict = "True"
    THEN [ok |-> TRUE, errors |-> <<>>, events |-> <<>>, raised |-> FALSE]
    ELSE IF verdict = "False"
    THEN [ok |-> FALSE, errors |-> <<"Invalid HMAC signature">>,
          events |-> <<invalid_event>>, raised |-> FALSE]
    ELSE [ok |-> FALSE, errors |-> <<>>, events |-> <<>>, raised |-> TRUE]

\* The signature step as the service is configured
SignatureCheck(sensor_id, payload, invalid_event) ==
    SignatureStep(config, sensor_id, payload, invalid_event)

\* The rate limiter of a worker whose rate limiting is switched off
NoLimiter == [messages_per_minute |-> 0, burst_capacity |-> 0, algorithm |-> "none"]

Rejected(errors, events, lims, rst, cache) ==
    [valid |-> FALSE, telemetry |-> None, errors |-> errors, warnings |-> <<>>,
     security_events |-> events, rate_limit_passed |-> TRUE, raised |-> FALSE,
     limiters |-> lims, rl_stats |-> rst, nonce_cache |-> cache]

validate_telemetry_under(cfg, sensor_id, payload, limiter, lims, rst, cache, t) ==
    IF ~TelemetryPayloadOk(payload)
    THEN Rejected(<<IF parse_iso_timestamp(payload.ts) = None
                    THEN "Invalid payload structure: Invalid ISO timestamp format"
                    ELSE "Invalid payload structure: Unsupported protocol version">>,
                  <<>>, lims, rst, cache)
    ELSE
    LET rl == IF limiter # NoLimiter /\ cfg.enable_rate_limiting
              THEN check_rate_limit(limiter, lims, rst, sensor_id, t)
              ELSE [limiters |-> lims, stats |-> rst, allowed |-> TRUE]
        sg == SignatureStep(cfg, sensor_id, payload, "invalid_signature")
        timestamp_valid ==
            IF cfg.enable_timestamp_validation
            THEN is_timestamp_valid(payload.ts, timestamp_window_seconds, t)
            ELSE TRUE
        check_nonce == nonce_cache_enabled(cache) /\ cfg.enable_nonce_validation
        nonce_valid == ~(check_nonce /\ cache_contains(cache, payload.nonce))
        cache2 == IF check_nonce /\ nonce_valid THEN cache_set(cache, payload.nonce) ELSE cache
        dec == Decrypted(payload)
        raised == \/ sg.raised
                  \/ is_payload_encrypted(payload) /\ update_raises(payload.encrypted_data)
        errors ==
            (IF rl.allowed THEN <<>> ELSE <<"Rate limit exceeded">>)
            \o sg.errors
            \o (IF timestamp_valid THEN <<>> ELSE <<"Timestamp outside valid window">>)
            \o (IF nonce_valid THEN <<>> ELSE <<"Nonce already used (replay attack)">>)
            \o dec.errors
            \o (IF dec.value = None THEN <<"Missing required telemetry data">> ELSE <<>>)
        events ==
            (IF rl.allowed THEN <<>> ELSE <<"rate_limit_exceeded">>)
            \o sg.events
            \o (IF timestamp_valid THEN <<>> ELSE <<"invalid_timestamp">>)
            \o (IF nonce_valid THEN <<>> ELSE <<"replay_attack">>)
            \o dec.events
        valid == /\ ~raised
                 /\ Len(errors) = 0
                 /\ sg.ok /\ timestamp_valid /\ nonce_valid /\ rl.allowed
                 /\ dec.value # None
    IN  [valid |-> valid,
         telemetry |->
            IF valid
            THEN Some([sensor_id |-> sensor_id, sensor_type |-> dec.sensor_type,
                       value |-> dec.value, nonce |-> payload.nonce,
                       signature_valid |-> sg.ok, timestamp_valid |-> timestamp_valid,
                       nonce_valid |-> nonce_valid, rate_limit_passed |-> rl.allowed,
                       decrypted |-> dec.decrypted])
            ELSE None,
         errors |-> IF raised THEN <<>> ELSE errors, warnings |-> <<>>,
         security_events |-> IF raised THEN <<>> ELSE events,
         rate_limit_passed |-> rl.allowed, raised |-> raised,
         limiters |-> rl.limiters, rl_stats |-> rl.stats,
         nonce_cache |-> IF sg.raised THEN cache ELSE cache2]

\* _validate_telemetry as the service is configured
validate_telemetry(sensor_id, payload, limiter, lims, rst, cache, t) ==
    validate_telemetry_under(config, sensor_id, payload, limiter, lims, rst, cache, t)

----------------------------------------------------------------------------
(* coap_client.py: CoAPClient._validate_coap_response                      *)

\* The broker path's window, not doubled.
CoapWindowSingle == timestamp_window_seconds

\* "Double the window for CoAP"
CoapWindow == timestamp_window_seconds * 2

validate_coap_response(payload, t) ==
    IF ~TelemetryPayloadOk(payload)
    THEN [valid |-> FALSE, telemetry |-> None,
          errors |-> <<"Invalid payload structure">>, warnings |-> <<>>,
          security_events |-> <<>>, raised |-> FALSE]
    ELSE
    LET sensor_id == payload.sensor_id
        sg == SignatureCheck(sensor_id, payload, "coap_invalid_signature")
        timestamp_valid ==
            IF enable_timestamp_validation
            THEN is_timestamp_valid(payload.ts, CoapWindow, t)
            ELSE TRUE
        warnings == IF timestamp_valid THEN <<>> ELSE <<"Timestamp outside valid window">>
        encrypted == payload.enc /\ payload.encrypted_data # Absent
        d == decrypt_sensor_payload(payload)
        value == IF encrypted /\ d # None THEN d[1].value ELSE payload.value
        sensor_type == IF encrypted /\ d # None THEN d[1].type ELSE payload.type
        raised == sg.raised \/ (encrypted /\ update_raises(payload.encrypted_data))
        decrypt_failed == encrypted /\ d = None
        errors ==
            sg.errors
            \o (IF decrypt_failed THEN <<"Failed to decrypt payload">> ELSE <<>>)
            \o (IF value = None THEN <<"Missing required telemetry data">> ELSE <<>>)
        events ==
            sg.events \o (IF decrypt_failed THEN <<"coap_decryption_failed">> ELSE <<>>)
        valid == ~raised /\ Len(errors) = 0 /\ sg.ok /\ value # None
    IN  [valid |-> valid,
         telemetry |->
            IF valid
            THEN Some([sensor_id |-> sensor_id, sensor_type |-> sensor_type,
                       value |-> value, nonce |-> payload.nonce,
                       signature_valid |-> sg.ok, timestamp_valid |-> timestamp_valid,
                       nonce_valid |-> TRUE, rate_limit_passed |-> TRUE,
                       decrypted |-> encrypted /\ d # None])
            ELSE None,
         errors |-> IF raised THEN <<>> ELSE errors,
         warnings |-> IF raised THEN <<>> ELSE warnings,
         security_events |-> IF raised THEN <<>> ELSE events, raised |-> raised]

----------------------------------------------------------------------------
(* security/jwk.py                                                         *)

\* generate_service_token's default lifetime
expire_minutes == 60

\* generate_service_token at time t: the claims iat and exp determine the
\* token, the subject and the secret being fixed
generate_service_token(t) == [iat |-> t, exp |-> t + expire_minutes * 60]

----------------------------------------------------------------------------
(* main.py: send_to_cloud                                                  *)

SuccessCodes == {200, 201, 202}

\* What the cloud endpoint can answer; 0 stands for a transport error
\* (the POST raises).
StatusCodes == {200, 401, 404, 500, 0}

\* A sender that gives up for good once a POST has failed.
send_to_cloud_halting(sent, telemetry, path, id, t) ==
    IF done.state = "failed"
    THEN sent
    ELSE Append(sent, [path |-> path, msg |-> id, dto |-> from_processed(telemetry),
                       token |-> generate_service_token(t), at |-> t,
                       calls |-> 1, state |-> "inflight", status |-> 0])

\* A sender that issues no POST.
send_to_cloud_dropped(sent, telemetry, path, id, t) == sent

\* send_to_cloud at time t up to the POST: a token is generated and one
\* HTTP call that carries it is issued for the record
send_to_cloud(sent, telemetry, path, id, t) ==
    Append(sent, [path |-> path, msg |-> id, dto |-> from_processed(telemetry),
                  token |-> generate_service_token(t), at |-> t,
                  calls |-> 1, state |-> "inflight", status |-> 0])

\* send_to_cloud after the POST returned or raised: the outcome is counted
\* and the record is done with
post_returned(rec, status) ==
    [rec EXCEPT !.status = status,
                !.state = IF status \in SuccessCodes THEN "success" ELSE "failed"]

----------------------------------------------------------------------------
(* mqtt_worker.py: MQTTWorker._process_telemetry                           *)

Contains(str, errs) == \E i \in 1..Len(errs) : errs[i] = str

\* The counter an error message is counted under ("signature" in
\* error.lower(), ...), or "" when it matches none
StatKind(error) ==
    CASE error \in {"Missing signature", "Invalid HMAC signature"} -> "invalid_signatures"
      [] error \in {"Timestamp outside valid window",
                    "Invalid payload structure: Invalid ISO timestamp format"}
            -> "invalid_timestamps"
      [] error = "Nonce already used (replay attack)" -> "replay_attempts"
      [] error = "Rate limit exceeded" -> "rate_limited"
      [] OTHER -> ""

CountKind(errors, kind) ==
    Cardinality({i \in 1..Len(errors) : StatKind(errors[i]) = kind})

CountErrors(st, errors) ==
    [st EXCEPT !.invalid_signatures = @ + CountKind(errors, "invalid_signatures"),
               !.invalid_timestamps = @ + CountKind(errors, "invalid_timestamps"),
               !.replay_attempts = @ + CountKind(errors, "replay_attempts"),
               !.rate_limited = @ + CountKind(errors, "rate_limited")]

----------------------------------------------------------------------------
(* Envelopes the sensors and an attacker can produce                       *)

\* An envelope signed by the holder of the key `signer`: "" leaves sig
\* empty, "tamper" signs with temp-01's key and then changes the value.
Envelope(sid, ts, value, nonce, enc, ed, signer) ==
    LET body == [sensor_id |-> sid, ts |-> ts, type |-> "temperature", value |-> value,
                 nonce |-> nonce, enc |-> enc, encrypted_data |-> ed, ver |-> 1]
        sig == CASE signer = "" -> <<>>
                 [] signer = "tamper" ->
                      generate_hmac_signature([body EXCEPT !.value = Some(99)], "k_temp")
                 [] OTHER -> generate_hmac_signature(body, signer)
    IN  [sensor_id |-> sid, ts |-> ts, type |-> "temperature", value |-> value,
         nonce |-> nonce, enc |-> enc, encrypted_data |-> ed, ver |-> 1, sig |-> sig]

Signers == {"", "k_temp", "k_hum", "tamper"}

\* value, enc and encrypted_data as they occur together: a plain reading,
\* an encrypted one (value inside the ciphertext), and the malformed mixes
Contents ==
    {<<Some(22), FALSE, Absent>>, <<None, FALSE, Absent>>,
     <<None, TRUE, "ct_ok">>, <<None, TRUE, "ct_bad">>,
     <<Some(22), TRUE, Absent>>, <<None, TRUE, Absent>>,
     <<None, TRUE, "ct_notjson">>, <<None, TRUE, "ct_pairs">>,
     <<None, TRUE, "ct_scalar">>}

\* An envelope that states another type, signed by the holder of key
Retyped(envelope, type, key) ==
    LET body == [envelope EXCEPT !.type = type] IN
    [body EXCEPT !.sig = generate_hmac_signature(body, key)]

\* temp-01's fresh readings that state another type than their content
\* has: a plain reading of an unknown kind, and encrypted readings whose
\* plaintext does or does not name the type
RetypedReadings(t) ==
    {Retyped(Envelope("temp-01", IsoTs(t, "Z"), Some(22), "n1", FALSE, Absent, "k_temp"),
             "pressure", "k_temp"),
     Retyped(Envelope("temp-01", IsoTs(t, "Z"), None, "n1", TRUE, "ct_ok", "k_temp"),
             "humidity", "k_temp"),
     Retyped(Envelope("temp-01", IsoTs(t, "Z"), None, "n1", TRUE, "ct_notype", "k_temp"),
             "humidity", "k_temp")}

BrokerTimestamps(t) ==
    {IsoTs(t, "Z"), IsoTs(t - 1, "Z"), IsoTs(t - timestamp_window_seconds - 1, "Z"),
     BadTs("invalid")}

ProbeTimestamps(t) ==
    {IsoTs(t, "Z"), IsoTs(t - 2 * timestamp_window_seconds, "Z"),
     IsoTs(t - 2 * timestamp_window_seconds - 1, "Z")}

\* temp-01's own fresh plain reading on its own topic, as
\* <<topic sensor, sensor_id, ts, content, signer>>
OwnReading(t) ==
    <<"temp-01", "temp-01", IsoTs(t, "Z"), <<Some(22), FALSE, Absent>>, "k_temp">>

\* The readings that depart from it in at most one of the five places
OneDeparture(t, timestamps) ==
    LET own == OwnReading(t) IN
    {[own EXCEPT ![1] = x] : x \in TopicIds}
    \cup {[own EXCEPT ![2] = x] : x \in EnvelopeIds}
    \cup {[own EXCEPT ![3] = x] : x \in timestamps}
    \cup {[own EXCEPT ![4] = x] : x \in Contents}
    \cup {[own EXCEPT ![5] = x] : x \in Signers}

\* What the broker can deliver: pairs of topic sensor and envelope
BrokerDeliveries(t) ==
    {<<x[1], Envelope(x[2], x[3], x[4][1], n, x[4][2], x[4][3], x[5])>> :
        x \in OneDeparture(t, BrokerTimestamps(t)), n \in Nonces}
    \cup {<<"temp-01", e>> : e \in RetypedReadings(t)}

\* The sensor whose host is probed: GET /sensors/temp-01/current, and
\* temp-01's entry of sensor_configs under POST /coap/poll
ProbedSensor == "temp-01"

\* What a probed sensor can answer
ProbeEnvelopes(t) ==
    {Envelope(x[2], x[3], x[4][1], "n1", x[4][2], x[4][3], x[5]) :
        x \in {y \in OneDeparture(t, ProbeTimestamps(t)) : y[1] = "temp-01"}}
    \cup RetypedReadings(t)

----------------------------------------------------------------------------
(* The gateway                                                             *)

NoSend ==
    [path |-> "none", msg |-> 0,
     dto |-> [sensor_id |-> "", value |-> None, sensor_type |-> "",
              security_validated |-> FALSE],
     token |-> [iat |-> 0, exp |-> 0], at |-> 0,
     calls |-> 0, state |-> "none", status |-> 0]

NoPayload == Envelope("temp-01", BadTs("empty"), None, "n1", FALSE, Absent, "")

Steps == stats.total_messages + coap_stats.total_requests

\* No health_check answered yet
NoHealth ==
    [status |-> "none", mqtt_connected |-> FALSE, coap_client_ready |-> FALSE,
     cloud_client_ready |-> FALSE, session |-> "none"]

\* lifespan at its yield, just after MQTTWorker.start() returned: the HTTP
\* client and the CoAP context exist, running is set, client.connect() has
\* sent CONNECT and the network loop is started; the broker has not
\* answered yet
Started ==
    [lifespan |-> "serving", running |-> TRUE, loop |-> TRUE, session |-> "connecting",
     subscribed |-> {}, context |-> TRUE, http |-> "open", connects |-> 0,
     kept |-> 0, at_stop |-> {}, aborted |-> {}, health |-> NoHealth]

\* client.subscribe("greenhouse/+/telemetry", qos=1)
TelemetrySubscription == [topic |-> "greenhouse/+/telemetry", qos |-> 1]

\* The same once the broker has accepted the session and the subscription
Serving ==
    [Started EXCEPT !.session = "connected", !.subscribed = {TelemetrySubscription},
                    !.connects = 1]

\* The worker as constructed under the configuration cfg around the rate
\* limiter rl, with the lifespan at cn: the limiter and the nonce cache
\* exist only if their switch is on
ConstructedUnder(rl, cfg, cn) ==
    /\ config = cfg
    /\ conn = cn
    /\ now = 0
    /\ rate_limiter = IF cfg.enable_rate_limiting THEN rl ELSE NoLimiter
    /\ limiters = [s \in TopicIds |-> NoBucket]
    /\ rl_stats = [s \in TopicIds |-> NoStats]
    /\ nonce_cache = <<>>
    /\ stats = [total_messages |-> 0, valid_messages |-> 0, invalid_signatures |-> 0,
                invalid_timestamps |-> 0, replay_attempts |-> 0, rate_limited |-> 0,
                encryption_failures |-> 0]
    /\ coap_stats = [total_requests |-> 0, successful_requests |-> 0,
                     invalid_responses |-> 0]
    /\ app_stats = [total_cloud_sends |-> 0, successful_cloud_sends |-> 0,
                    failed_cloud_sends |-> 0]
    /\ inflight = <<>>
    /\ done = NoSend
    /\ last = [path |-> "none", id |-> 0, sensor_id |-> "", requested |-> "",
               payload |-> NoPayload,
               valid |-> FALSE, errors |-> <<>>, warnings |-> <<>>,
               security_events |-> <<>>, telemetry |-> None, sent |-> FALSE,
               admitted |-> FALSE, replay |-> FALSE, raised |-> FALSE, at |-> 0]
    /\ seen = {}
    /\ admit_log = [s \in TopicIds |-> <<>>]
    /\ tv = [ts |-> BadTs("empty"), window |-> 0, at |-> 0, result |-> FALSE]
    /\ tasks = [i \in 1..MaxTasks |-> [pc |-> "idle", allowed |-> FALSE, calls |-> 0]]
    /\ handled = <<>>
    /\ ready = [queue |-> <<>>, delivered |-> 0, started |-> <<>>]

\* The worker as load_config's defaults construct it, serving
Constructed(rl) == ConstructedUnder(rl, DefaultConfig, Serving)

\* Nothing signed yet
NoHv ==
    [payload |-> <<>>, key |-> "", sig |-> <<>>, other |-> <<>>, key2 |-> "",
     canon |-> <<>>, canon2 |-> <<>>, sig2 |-> <<>>, verified |-> FALSE, stage |-> "none"]

Init ==
    /\ Constructed(RateLimiter(messages_per_minute, burst_capacity, "token_bucket"))
    /\ hv = NoHv

\* time.time() advances
Tick ==
    /\ now < MaxTime
    /\ now' = now + 1
    /\ UNCHANGED <<rate_limiter, handled, ready, tasks, hv, limiters,
                   rl_stats, nonce_cache, stats, coap_stats, app_stats,
                   inflight, done, last, seen, admit_log, tv, conn, config>>

\* MQTTWorker._on_message and the _process_telemetry task it creates, up to
\* the POST of send_to_cloud.  A validation that raises is caught by
\* _process_telemetry: the message is counted and dropped, what the gates
\* before the raise wrote stays written
OnMessage(sensor_id, payload) ==
    LET r == validate_telemetry(sensor_id, payload, rate_limiter, limiters, rl_stats,
                                nonce_cache, now)
        id == stats.total_messages + 1
    IN  /\ Steps < MaxMsgs
        /\ limiters' = r.limiters
        /\ rl_stats' = r.rl_stats
        /\ nonce_cache' = r.nonce_cache
        /\ stats' = CountErrors(
                        [stats EXCEPT !.total_messages = @ + 1,
                                      !.valid_messages = @ + (IF r.valid THEN 1 ELSE 0)],
                        IF r.valid THEN <<>> ELSE r.errors)
        /\ inflight' = IF r.valid
                       THEN send_to_cloud(inflight, r.telemetry[1], "mqtt", id, now)
                       ELSE inflight
        /\ app_stats' = IF r.valid
                        THEN [app_stats EXCEPT !.total_cloud_sends = @ + 1]
                        ELSE app_stats
        /\ last' = [path |-> "mqtt", id |-> id, sensor_id |-> sensor_id, payload |-> payload,
                    requested |-> sensor_id,
                    valid |-> r.valid, errors |-> r.errors, warnings |-> r.warnings,
                    security_events |-> r.security_events, telemetry |-> r.telemetry,
                    sent |-> Len(inflight') > Len(inflight),
                    admitted |-> r.rate_limit_passed, replay |-> payload.nonce \in seen,
                    raised |-> r.raised, at |-> now]
        /\ seen' = IF r.valid THEN seen \cup {payload.nonce} ELSE seen
        /\ handled' = Append(handled, [nonce |-> payload.nonce,
                                        outcome |-> CASE r.valid -> "valid"
                                                      [] r.raised -> "raised"
                                                      [] OTHER -> "rejected"])
        /\ UNCHANGED <<now, rate_limiter, tasks, hv, coap_stats, done,
                       admit_log, tv, conn, config>>

\* The POST of the i-th waiting send returns with a status, or raises:
\* send_to_cloud counts the outcome and returns
CloudRespond(i, status) ==
    /\ i \in 1..Len(inflight)
    /\ done' = post_returned(inflight[i], status)
    /\ inflight' = [j \in 1..(Len(inflight) - 1) |->
                       IF j < i THEN inflight[j] ELSE inflight[j + 1]]
    /\ app_stats' = IF status \in SuccessCodes
                    THEN [app_stats EXCEPT !.successful_cloud_sends = @ + 1]
                    ELSE [app_stats EXCEPT !.failed_cloud_sends = @ + 1]
    /\ UNCHANGED <<now, rate_limiter, handled, ready, tasks, hv, limiters,
                   rl_stats, nonce_cache, stats, coap_stats, last, seen,
                   admit_log, tv, conn, config>>

\* A probe that records the response's nonce in the broker path's cache.
GetSensorReadingRecorded(payload, forward) ==
    LET r == validate_coap_response(payload, now)
        id == coap_stats.total_requests + 1
    IN  /\ Steps < MaxMsgs
        /\ coap_stats' = [coap_stats EXCEPT
                            !.total_requests = @ + 1,
                            !.successful_requests = @ + (IF r.valid THEN 1 ELSE 0),
                            !.invalid_responses = @ + (IF r.valid \/ r.raised THEN 0 ELSE 1)]
        /\ inflight' = IF r.valid /\ forward
                       THEN send_to_cloud(inflight, r.telemetry[1], "coap", id, now)
                       ELSE inflight
        /\ app_stats' = IF r.valid /\ forward
                        THEN [app_stats EXCEPT !.total_cloud_sends = @ + 1]
                        ELSE app_stats
        /\ last' = [path |-> "coap", id |-> id, sensor_id |-> payload.sensor_id,
                    requested |-> ProbedSensor,
                    payload |-> payload,
                    valid |-> r.valid, errors |-> r.errors, warnings |-> r.warnings,
                    security_events |-> r.security_events, telemetry |-> r.telemetry,
                    sent |-> Len(inflight') > Len(inflight),
                    admitted |-> TRUE, replay |-> FALSE, raised |-> r.raised, at |-> now]
        /\ nonce_cache' = cache_set(nonce_cache, payload.nonce)
        /\ UNCHANGED <<now, rate_limiter, handled, ready, tasks, hv,
                       limiters, rl_stats, stats, done, seen, admit_log, tv,
                       conn, config>>

\* CoAPClient.get_sensor_reading for a successful response carrying payload
\* (a validation that raises is caught, the request returns no result);
\* forward is TRUE under POST /coap/poll, which hands a valid result to
\* send_to_cloud, and FALSE under GET /sensors/{id}/current
GetSensorReading(payload, forward) ==
    LET r == validate_coap_response(payload, now)
        id == coap_stats.total_requests + 1
    IN  /\ Steps < MaxMsgs
        /\ coap_stats' = [coap_stats EXCEPT
                            !.total_requests = @ + 1,
                            !.successful_requests = @ + (IF r.valid THEN 1 ELSE 0),
                            !.invalid_responses = @ + (IF r.valid \/ r.raised THEN 0 ELSE 1)]
        /\ inflight' = IF r.valid /\ forward
                       THEN send_to_cloud(inflight, r.telemetry[1], "coap", id, now)
                       ELSE inflight
        /\ app_stats' = IF r.valid /\ forward
                        THEN [app_stats EXCEPT !.total_cloud_sends = @ + 1]
                        ELSE app_stats
        /\ last' = [path |-> "coap", id |-> id, sensor_id |-> payload.sensor_id,
                    requested |-> ProbedSensor,
                    payload |-> payload,
                    valid |-> r.valid, errors |-> r.errors, warnings |-> r.warnings,
                    security_events |-> r.security_events, telemetry |-> r.telemetry,
                    sent |-> Len(inflight') > Len(inflight),
                    admitted |-> TRUE, replay |-> FALSE, raised |-> r.raised, at |-> now]
        /\ UNCHANGED <<now, rate_limiter, handled, ready, tasks, hv,
                       limiters, rl_stats, nonce_cache, stats, done, seen,
                       admit_log, tv, conn, config>>

Next ==
    \/ Tick
    \/ \E d \in BrokerDeliveries(now) : OnMessage(d[1], d[2]) /\ UNCHANGED ready
    \/ \E i \in 1..MaxMsgs : \E c \in StatusCodes : CloudRespond(i, c)
    \/ \E p \in ProbeEnvelopes(now) : \E f \in BOOLEAN : GetSensorReading(p, f)

Spec == Init /\ [][Next]_vars

\* Every POST returns or raises: the HTTP client has a timeout
FairSpec ==
    Spec /\ WF_vars(\E i \in 1..MaxMsgs : \E c \in StatusCodes : CloudRespond(i, c))

----------------------------------------------------------------------------
(* The rate limiter on its own                                             *)

RateLimiters ==
    {RateLimiter(m, b, a) :
        m \in {messages_per_minute, messages_per_minute \div 2},
        b \in {burst_capacity, burst_capacity + 1},
        a \in {"token_bucket", "leaky_bucket"}}

RateTick ==
    /\ now < MaxRateTime
    /\ now' = now + 1
    /\ UNCHANGED <<rate_limiter, handled, ready, tasks, hv, limiters,
                   rl_stats, nonce_cache, stats, coap_stats, app_stats,
                   inflight, done, last, seen, admit_log, tv, conn, config>>

\* RateLimiter.check_rate_limit(sensor_id)
RateCall(sensor_id) ==
    LET r == check_rate_limit(rate_limiter, limiters, rl_stats, sensor_id, now) IN
    /\ rl_stats["temp-01"].total_requests + rl_stats["wind-01"].total_requests < MaxCalls
    /\ limiters' = r.limiters
    /\ rl_stats' = r.stats
    /\ admit_log' = IF r.allowed
                    THEN [admit_log EXCEPT ![sensor_id] = Append(@, now)]
                    ELSE admit_log
    /\ UNCHANGED <<now, rate_limiter, handled, ready, tasks, hv, nonce_cache,
                   stats, coap_stats, app_stats, inflight, done, last, seen,
                   tv, conn, config>>

RateNext ==
    \/ RateTick
    \/ \E s \in TopicIds : RateCall(s)

RateInit == hv = NoHv /\ \E rl \in RateLimiters : Constructed(rl)

SpecRate == RateInit /\ [][RateNext]_vars

\* time.time() is the wall clock: it is set back by a second
ClockStepBack ==
    /\ now > 0
    /\ now' = now - 1
    /\ UNCHANGED <<rate_limiter, handled, ready, tasks, hv, limiters,
                   rl_stats, nonce_cache, stats, coap_stats, app_stats,
                   inflight, done, last, seen, admit_log, tv, conn, config>>

ClockNext ==
    \/ RateTick
    \/ ClockStepBack
    \/ \E s \in TopicIds : RateCall(s)

\* The rate limiter under a wall clock that can step backwards
SpecClock == RateInit /\ [][ClockNext]_vars

----------------------------------------------------------------------------
(* Concurrent callers of check_rate_limit for one sensor.  A caller can be *)
(* suspended where the code awaits: at the bucket's lock, and when the     *)
(* bucket call returns; what the lock encloses is one step.                *)

ConcSensor == "temp-01"

\* check_rate_limit up to "await limiter.consume()": the bucket is looked
\* up or created and the request is counted
TaskEnter(i) ==
    /\ tasks[i].pc = "idle" /\ tasks[i].calls < CallsPerTask
    /\ limiters' = [limiters EXCEPT
                       ![ConcSensor] = get_limiter(rate_limiter, limiters, ConcSensor, now)]
    /\ rl_stats' = [rl_stats EXCEPT ![ConcSensor].total_requests = @ + 1]
    /\ tasks' = [tasks EXCEPT ![i].pc = "lock"]
    /\ UNCHANGED <<now, rate_limiter, handled, ready, hv, nonce_cache, stats,
                   coap_stats, app_stats, inflight, done, last, seen,
                   admit_log, tv, conn, config>>

\* TokenBucket.consume / LeakyBucket.add under the bucket's lock
TaskConsume(i) ==
    LET r == IF rate_limiter.algorithm = "token_bucket"
             THEN consume(limiters[ConcSensor], now)
             ELSE add(limiters[ConcSensor], now)
    IN  /\ tasks[i].pc = "lock"
        /\ limiters' = [limiters EXCEPT ![ConcSensor] = r.bucket]
        /\ tasks' = [tasks EXCEPT ![i].pc = "account", ![i].allowed = r.allowed]
        /\ UNCHANGED <<now, rate_limiter, handled, ready, hv, rl_stats,
                       nonce_cache, stats, coap_stats, app_stats, inflight,
                       done, last, seen, admit_log, tv, conn, config>>

\* check_rate_limit after the bucket call: the verdict is counted and
\* returned
TaskAccount(i) ==
    /\ tasks[i].pc = "account"
    /\ rl_stats' = IF tasks[i].allowed
                   THEN [rl_stats EXCEPT ![ConcSensor].allowed_requests = @ + 1]
                   ELSE [rl_stats EXCEPT ![ConcSensor].blocked_requests = @ + 1]
    /\ tasks' = [tasks EXCEPT ![i].pc = "idle", ![i].calls = @ + 1]
    /\ UNCHANGED <<now, rate_limiter, handled, ready, hv, limiters,
                   nonce_cache, stats, coap_stats, app_stats, inflight, done,
                   last, seen, admit_log, tv, conn, config>>

ConcNext ==
    \E i \in 1..MaxTasks : TaskEnter(i) \/ TaskConsume(i) \/ TaskAccount(i)

SpecConc == RateInit /\ [][ConcNext]_vars

----------------------------------------------------------------------------
(* The timestamp gate on its own                                           *)

TimestampStrings ==
    {IsoTs(sec, tz) : sec \in (0 - MaxSkew)..(MaxClock + MaxSkew),
                      tz \in {"Z", "+00:00", "+00:00:01"}}
    \cup {BadTs("invalid"), BadTs("empty")}

TimeTick ==
    /\ now < MaxClock
    /\ now' = now + 1
    /\ UNCHANGED <<rate_limiter, handled, ready, tasks, hv, limiters,
                   rl_stats, nonce_cache, stats, coap_stats, app_stats,
                   inflight, done, last, seen, admit_log, tv, conn, config>>

\* is_timestamp_valid(timestamp_str, window_seconds) called at time now
CheckTimestamp(ts, window_seconds) ==
    /\ tv' = [ts |-> ts, window |-> window_seconds, at |-> now,
              result |-> is_timestamp_valid(ts, window_seconds, now)]
    /\ UNCHANGED <<now, rate_limiter, handled, ready, tasks, hv, limiters,
                   rl_stats, nonce_cache, stats, coap_stats, app_stats,
                   inflight, done, last, seen, admit_log, conn, config>>

TimeNext ==
    \/ TimeTick
    \/ \E ts \in TimestampStrings : \E w \in 0..MaxWindow : CheckTimestamp(ts, w)

SpecTime == Init /\ [][TimeNext]_vars

----------------------------------------------------------------------------
(* Signing and verifying on their own                                      *)

FieldNames == {"nonce", "sig", "unit", "value"}
FieldValues == {"a", "b"}
HmacKeys == {"k_temp", "k_hum"}

\* The dicts of at most MaxFields items
Dicts ==
    {d \in UNION {[1..n -> FieldNames \X FieldValues] : n \in 0..MaxFields} :
        \A i, j \in 1..Len(d) : d[i][1] = d[j][1] => i = j}

\* generate_hmac_signature(payload, key), then what verifying the same
\* dict under the same key gives
Signed(payload, key) ==
    LET sig == generate_dict_signature(payload, key) IN
    [payload |-> payload, key |-> key, sig |-> sig, other |-> payload, key2 |-> key,
     canon |-> canonicalize_dict(payload), canon2 |-> canonicalize_dict(payload),
     sig2 |-> sig, verified |-> verify_dict_signature(payload, sig, key), stage |-> "signed"]

HmacInit ==
    /\ Constructed(RateLimiter(messages_per_minute, burst_capacity, "token_bucket"))
    /\ hv \in {Signed(p, k) : p \in Dicts, k \in HmacKeys}

\* verify_hmac_signature(other, sig, key2) for the signature made before
VerifyOther(other, key2) ==
    /\ hv.stage = "signed"
    /\ hv' = [hv EXCEPT !.other = other, !.key2 = key2,
                        !.canon2 = canonicalize_dict(other),
                        !.sig2 = generate_dict_signature(other, key2),
                        !.verified = verify_dict_signature(other, hv.sig, key2),
                        !.stage = "verified"]
    /\ UNCHANGED <<now, rate_limiter, handled, ready, tasks, limiters,
                   rl_stats, nonce_cache, stats, coap_stats, app_stats,
                   inflight, done, last, seen, admit_log, tv, conn, config>>

HmacNext == \E d \in Dicts : \E k \in HmacKeys : VerifyOther(d, k)

SpecHmac == HmacInit /\ [][HmacNext]_vars

----------------------------------------------------------------------------
(* Replays of temp-01's readings                                           *)

\* The timestamp of the readings replayed here
ReplayTs == IsoTs(0, "Z")

\* What the broker delivers here: temp-01's own readings taken at time 0,
\* one per nonce, any number of times
ReplayDeliveries ==
    {<<"temp-01", Envelope("temp-01", ReplayTs, Some(22), n, FALSE, Absent, "k_temp")>> :
        n \in Nonces}

ReplayNext ==
    \/ Tick
    \/ \E d \in ReplayDeliveries : OnMessage(d[1], d[2]) /\ UNCHANGED ready
    \/ \E i \in 1..MaxMsgs : \E c \in StatusCodes : CloudRespond(i, c)

SpecReplay == Init /\ [][ReplayNext]_vars

----------------------------------------------------------------------------
(* The gateway with one of its gates switched off                          *)

\* The configurations in which exactly one ENABLE_* switch is off
KillConfigs ==
    {SecurityConfig(DefaultKeys, sg, ts, nc, rt) :
        sg \in BOOLEAN, ts \in BOOLEAN, nc \in BOOLEAN, rt \in BOOLEAN}
    \ {c \in {SecurityConfig(DefaultKeys, sg, ts, nc, rt) :
                sg \in BOOLEAN, ts \in BOOLEAN, nc \in BOOLEAN, rt \in BOOLEAN} :
            Cardinality({f \in {"enable_signature_verification",
                                "enable_timestamp_validation",
                                "enable_nonce_validation",
                                "enable_rate_limiting"} : ~c[f]}) # 1}

\* What the broker delivers here: plain readings that depart from
\* temp-01's own in topic, sensor_id, ts or signer
KillDeliveries(t) ==
    {<<x[1], Envelope(x[2], x[3], x[4][1], n, x[4][2], x[4][3], x[5])>> :
        x \in {y \in OneDeparture(t, BrokerTimestamps(t)) : y[4] = OwnReading(t)[4]},
        n \in Nonces}

KillInit ==
    /\ \E cfg \in KillConfigs :
          ConstructedUnder(RateLimiter(messages_per_minute, burst_capacity, "token_bucket"),
                           cfg, Serving)
    /\ hv = NoHv

KillNext ==
    \/ Tick
    \/ \E d \in KillDeliveries(now) : OnMessage(d[1], d[2]) /\ UNCHANGED ready
    \/ \E i \in 1..MaxMsgs : \E c \in StatusCodes : CloudRespond(i, c)

SpecKill == KillInit /\ [][KillNext]_vars

----------------------------------------------------------------------------
(* Probes answered in another sensor's name                                *)

\* What the probed host can answer here: what temp-01 can answer, and a
\* fresh reading of humidity-01 signed with humidity-01's key
ProbeAnswers(t) ==
    ProbeEnvelopes(t)
    \cup {Envelope("humidity-01", IsoTs(t, "Z"), Some(22), "n1", FALSE, Absent, "k_hum")}

ProbeNext ==
    \/ Tick
    \/ \E p \in ProbeAnswers(now) : \E f \in BOOLEAN : GetSensorReading(p, f)
    \/ \E i \in 1..MaxMsgs : \E c \in StatusCodes : CloudRespond(i, c)

SpecProbe == Init /\ [][ProbeNext]_vars

----------------------------------------------------------------------------
(* The signature step under keys and signatures of every shape             *)

\* Key tables an operator can configure: wind-01's key unset or not hex,
\* temp-01's key right or not hex
VerifyKeys ==
    {[DefaultKeys EXCEPT !["temp-01"] = a, !["wind-01"] = b] :
        a \in {"k_temp"} \cup NonHexKeys, b \in {""} \cup NonHexKeys}

\* A fresh plain reading of sensor sid whose sig field holds sig
WithSig(sid, nonce, t, sig) ==
    [Envelope(sid, IsoTs(t, "Z"), Some(22), nonce, FALSE, Absent, "") EXCEPT !.sig = sig]

\* What the broker delivers here: readings of temp-01 and wind-01 signed
\* under temp-01's key or another's, tampered with, or carrying a sig that
\* is empty, garbled or not ASCII
VerifyDeliveries(t) ==
    {<<sid, Envelope(sid, IsoTs(t, "Z"), Some(22), n, FALSE, Absent, k)>> :
        sid \in TopicIds, n \in Nonces, k \in Signers}
    \cup {<<sid, WithSig(sid, n, t, sig)>> :
            sid \in TopicIds, n \in Nonces, sig \in {GarbledSig, NonAsciiSig}}

VerifyInit ==
    /\ \E keys \in VerifyKeys :
          ConstructedUnder(RateLimiter(messages_per_minute, burst_capacity, "token_bucket"),
                           SecurityConfig(keys, TRUE, TRUE, TRUE, TRUE), Serving)
    /\ hv = NoHv

VerifyNext ==
    \/ Tick
    \/ \E d \in VerifyDeliveries(now) : OnMessage(d[1], d[2]) /\ UNCHANGED ready
    \/ \E i \in 1..MaxMsgs : \E c \in StatusCodes : CloudRespond(i, c)

SpecVerify == VerifyInit /\ [][VerifyNext]_vars

----------------------------------------------------------------------------
(* The broker callback and the tasks it creates.  _on_message creates one  *)
(* task per message and returns; the event loop starts the tasks later.    *)
(* A task that has started runs _validate_telemetry without suspending:    *)
(* the only await before the POST is the bucket's lock, which is free      *)
(* whenever a task reaches it, since no task suspends while holding it.    *)

\* What the broker delivers here: readings of temp-01 signed with its key
\* or with another, and readings of wind-01
OrderDeliveries(t) ==
    {<<"temp-01", Envelope("temp-01", IsoTs(t, "Z"), Some(22), n, FALSE, Absent, k)>> :
        n \in Nonces, k \in {"k_temp", "k_hum"}}
    \cup {<<"wind-01", Envelope("wind-01", IsoTs(t, "Z"), Some(22), "n1", FALSE, Absent,
                                "k_temp")>>}

\* _on_message: asyncio.create_task(self._process_telemetry(sensor_id,
\* payload)) puts the new task at the end of the loop's ready queue
Deliver(sensor_id, payload) ==
    /\ ready.delivered < MaxMsgs
    /\ ready' = [ready EXCEPT
                    !.queue = Append(@, [sensor_id |-> sensor_id, payload |-> payload,
                                         seq |-> ready.delivered + 1]),
                    !.delivered = @ + 1]
    /\ UNCHANGED <<now, rate_limiter, handled, tasks, hv, limiters, rl_stats,
                   nonce_cache, stats, coap_stats, app_stats, inflight, done,
                   last, seen, admit_log, tv, conn, config>>

\* A loop that runs the task created last.
next_ready_newest(queue) == Len(queue)

\* The event loop runs what is ready first in, first out
next_ready(queue) == 1

\* The loop starts the next ready task: _process_telemetry up to the POST
RunTask ==
    /\ ready.queue # <<>>
    /\ LET i == next_ready(ready.queue)
           m == ready.queue[i]
       IN  /\ OnMessage(m.sensor_id, m.payload)
           /\ ready' = [ready EXCEPT
                           !.queue = SubSeq(@, 1, i - 1) \o SubSeq(@, i + 1, Len(@)),
                           !.started = Append(@, [sensor_id |-> m.sensor_id,
                                                  seq |-> m.seq])]

OrderNext ==
    \/ Tick
    \/ \E d \in OrderDeliveries(now) : Deliver(d[1], d[2])
    \/ RunTask
    \/ \E i \in 1..MaxMsgs : \E c \in StatusCodes : CloudRespond(i, c)

SpecOrder == Init /\ [][OrderNext]_vars

----------------------------------------------------------------------------
(* The broker session and the lifespan of the service                      *)

\* CONNACK return codes: 0 accepts the session, 5 refuses it
ConnackCodes == {0, 5}

\* Reasons of an unexpected disconnection
DisconnectCodes == {1, 7}

\* What the broker delivers here: readings of temp-01 signed with its key
\* or with another
ConnDeliveries(t) ==
    {<<"temp-01", Envelope("temp-01", IsoTs(t, "Z"), Some(22), n, FALSE, Absent, k)>> :
        n \in Nonces, k \in {"k_temp", "k_hum"}}

\* A callback that subscribes whatever the broker answered.
on_connect_subscriptions_any(rc) == {TelemetrySubscription}

\* _on_connect: the subscriptions it makes for the return code rc
on_connect_subscriptions(rc) == IF rc = 0 THEN {TelemetrySubscription} ELSE {}

\* The broker answers CONNECT and the network loop calls _on_connect(rc)
OnConnect(rc) ==
    /\ conn.loop /\ conn.session = "connecting"
    /\ conn' = [conn EXCEPT !.session = IF rc = 0 THEN "connected" ELSE "refused",
                            !.subscribed = on_connect_subscriptions(rc),
                            !.connects = @ + 1]
    /\ UNCHANGED <<now, rate_limiter, handled, ready, tasks, hv, limiters,
                   rl_stats, nonce_cache, stats, coap_stats, app_stats,
                   inflight, done, last, seen, admit_log, tv, config>>

\* The connection is lost and the network loop calls _on_disconnect(rc),
\* which logs; the session was a clean one, its subscription is gone
OnDisconnect(rc) ==
    /\ conn.loop /\ conn.session = "connected"
    /\ conn' = [conn EXCEPT !.session = "lost", !.subscribed = {},
                            !.kept = Len(inflight) + Len(ready.queue)]
    /\ UNCHANGED <<now, rate_limiter, handled, ready, tasks, hv, limiters,
                   rl_stats, nonce_cache, stats, coap_stats, app_stats,
                   inflight, done, last, seen, admit_log, tv, config>>

\* The network loop started by loop_start() connects again
Reconnect ==
    /\ conn.loop /\ conn.session \in {"lost", "refused"}
    /\ conn.connects < MaxConnects
    /\ conn' = [conn EXCEPT !.session = "connecting"]
    /\ UNCHANGED <<now, rate_limiter, handled, ready, tasks, hv, limiters,
                   rl_stats, nonce_cache, stats, coap_stats, app_stats,
                   inflight, done, last, seen, admit_log, tv, config>>

\* The broker delivers a message to the subscribed session: _on_message
ConnDeliver(sensor_id, payload) ==
    /\ conn.loop /\ conn.session = "connected"
    /\ TelemetrySubscription \in conn.subscribed
    /\ Deliver(sensor_id, payload)

\* health_check: the response, with the broker session at that moment
health_check(c) ==
    LET mqtt_connected == c.running
        coap_client_ready == c.context
        cloud_client_ready == c.http \in {"open", "closed"}
    IN  [status |-> IF mqtt_connected /\ coap_client_ready /\ cloud_client_ready
                    THEN "healthy" ELSE "degraded",
         mqtt_connected |-> mqtt_connected,
         coap_client_ready |-> coap_client_ready,
         cloud_client_ready |-> cloud_client_ready,
         session |-> c.session]

\* GET /health
HealthCheck ==
    /\ conn.lifespan = "serving"
    /\ conn' = [conn EXCEPT !.health = health_check(conn)]
    /\ UNCHANGED <<now, rate_limiter, handled, ready, tasks, hv, limiters,
                   rl_stats, nonce_cache, stats, coap_stats, app_stats,
                   inflight, done, last, seen, admit_log, tv, config>>

\* The messages whose send_to_cloud call is waiting for its POST
InFlight == {inflight[i].msg : i \in 1..Len(inflight)}

\* lifespan's finally, first statement: MQTTWorker.stop() clears running,
\* stops the network loop and disconnects
StopWorker ==
    /\ conn.lifespan = "serving"
    /\ conn' = [conn EXCEPT !.lifespan = "worker_stopped", !.running = FALSE,
                            !.loop = FALSE, !.session = "closed", !.subscribed = {},
                            !.at_stop = InFlight]
    /\ UNCHANGED <<now, rate_limiter, handled, ready, tasks, hv, limiters,
                   rl_stats, nonce_cache, stats, coap_stats, app_stats,
                   inflight, done, last, seen, admit_log, tv, config>>

\* lifespan's finally, second statement: CoAPClient.stop() shuts the
\* context down
StopCoap ==
    /\ conn.lifespan = "worker_stopped"
    /\ conn' = [conn EXCEPT !.lifespan = "coap_stopped"]
    /\ UNCHANGED <<now, rate_limiter, handled, ready, tasks, hv, limiters,
                   rl_stats, nonce_cache, stats, coap_stats, app_stats,
                   inflight, done, last, seen, admit_log, tv, config>>

\* lifespan's finally, third statement: cloud_http_client.aclose(); the
\* POSTs still waiting on the client can only raise from here on
CloseHttp ==
    /\ conn.lifespan = "coap_stopped"
    /\ conn' = [conn EXCEPT !.lifespan = "closed", !.http = "closed",
                            !.aborted = InFlight \cap conn.at_stop]
    /\ UNCHANGED <<now, rate_limiter, handled, ready, tasks, hv, limiters,
                   rl_stats, nonce_cache, stats, coap_stats, app_stats,
                   inflight, done, last, seen, admit_log, tv, config>>

\* A POST returns while the client is open, and raises once it is closed
ConnRespond(i, status) ==
    /\ conn.http = "open" \/ status = 0
    /\ CloudRespond(i, status)

\* lifespan has started the service
ConnInit ==
    /\ ConstructedUnder(RateLimiter(messages_per_minute, burst_capacity, "token_bucket"),
                        DefaultConfig, Started)
    /\ hv = NoHv

ConnNext ==
    \/ \E rc \in ConnackCodes : OnConnect(rc)
    \/ \E rc \in DisconnectCodes : OnDisconnect(rc)
    \/ Reconnect
    \/ \E d \in ConnDeliveries(now) : ConnDeliver(d[1], d[2])
    \/ RunTask
    \/ \E i \in 1..MaxMsgs : \E c \in StatusCodes : ConnRespond(i, c)
    \/ HealthCheck
    \/ StopWorker
    \/ StopCoap
    \/ CloseHttp

SpecConn == ConnInit /\ [][ConnNext]_vars

----------------------------------------------------------------------------
(* What the envelope fields mean, as the specification reads them          *)

\* An RFC 3339 timestamp with offset denotes the instant sec - offset.
WellFormedTs(ts) == ts.form = "iso"
InstantOf(ts) == ts.sec - (IF ts.tz = "+00:00:01" THEN 1 ELSE 0)
Within(ts, at, w) == WellFormedTs(ts) /\ Abs(at - InstantOf(ts)) <= w

\* sig is the keyed hash, under key, of the envelope without sig.
SignedUnder(payload, key) ==
    /\ key # ""
    /\ payload.sig = <<key, [f \in (DOMAIN payload) \ {"sig"} |-> payload[f]]>>

OnlyReplayError(errors) ==
    \A i \in 1..Len(errors) : errors[i] = "Nonce already used (replay attack)"

----------------------------------------------------------------------------
(* Properties                                                              *)

\* C1: on the broker path the cloud sender is invoked for a message only if
\* the rate limiter admitted it, its signature verifies under the key
\* registered for the topic's sensor, its ts is within W of now, its nonce
\* was not seen before, decryption succeeded when enc is true, and its
\* value is non-null.
ForwardOnlyThroughGates ==
    (last.path = "mqtt" /\ last.sent) =>
        /\ last.admitted
        /\ SignedUnder(last.payload, KeyOf(last.sensor_id))
        /\ Within(last.payload.ts, last.at, timestamp_window_seconds)
        /\ ~last.replay
        /\ (last.payload.enc => last.payload.encrypted_data = "ct_ok")
        /\ last.telemetry # None
        /\ last.telemetry[1].value # None

\* C2: an otherwise valid envelope whose nonce was already accepted on the
\* broker path is rejected with a replay_attack event and causes no POST.
ReplayRejected ==
    (last.path = "mqtt" /\ last.replay /\ OnlyReplayError(last.errors)) =>
        /\ ~last.sent
        /\ Contains("replay_attack", last.security_events)

\* C3: for every sensor, the calls admitted between any two admitted calls
\* t seconds apart number at most burst + floor(t * messages_per_minute / 60).
RateBound ==
    \A s \in TopicIds :
        \A i \in 1..Len(admit_log[s]) : \A j \in i..Len(admit_log[s]) :
            j - i + 1 <= rate_limiter.burst_capacity
                         + ((admit_log[s][j] - admit_log[s][i])
                            * rate_limiter.messages_per_minute) \div TokenUnit

\* A sensor was throttled and, after a refill, admitted again.
RateBoundWitness ==
    /\ rate_limiter.algorithm = "token_bucket"
    /\ rl_stats["temp-01"].blocked_requests > 0
    /\ Len(admit_log["temp-01"]) > rate_limiter.burst_capacity

\* C4: a broker message whose envelope sensor_id differs from the sensor_id
\* of its topic is never forwarded.
SpoofNeverForwarded ==
    (last.path = "mqtt" /\ last.payload.sensor_id # last.sensor_id) => ~last.sent

\* C5: a record whose POST was answered 500 is retried; the forwarder does
\* not give it up before the fourth call, which the endpoint answers 200.
RetriedUntilSuccess ==
    (done.state = "failed" /\ done.status = 500) => done.calls > 3

\* C6: 200/201/202 ends forwarding as success; 401/403 causes exactly one
\* retry; a 5xx or a transport error is retried up to 5 attempts in total;
\* any other 4xx fails after exactly one attempt; a record is successful
\* iff an attempt returned 200/201/202.
OutcomeClassified ==
    done.state # "none" =>
        /\ (done.state = "success") <=> (done.status \in SuccessCodes)
        /\ done.status \in {401, 403} => done.calls = 2
        /\ (done.status >= 500 \/ done.status = 0) => done.calls = 5
        /\ done.status \in {400, 404} => (done.state = "failed" /\ done.calls = 1)
        /\ done.calls <= 5

\* C7: the number of validated records waiting to be forwarded never
\* exceeds the capacity Q.
QueueBounded == Len(inflight) <= QueueCapacity

\* C8: every broker message that passes validation gets its POST, one
\* call, and the POST returns; a POST answered 2xx was the record's only
\* one and raises successful_cloud_sends by exactly one.
Waiting(id) ==
    \E i \in 1..Len(inflight) : inflight[i].path = "mqtt" /\ inflight[i].msg = id

ProbeFreshness ==
    (/\ last.path = "coap"
     /\ SignedUnder(last.payload, KeyOf(last.payload.sensor_id))
     /\ WellFormedTs(last.payload.ts)
     /\ (last.payload.value # None \/ last.payload.encrypted_data = "ct_ok")) =>
        /\ last.valid
        /\ last.errors = <<>>
        /\ last.telemetry[1].timestamp_valid
              = Within(last.payload.ts, last.at, 2 * timestamp_window_seconds)
        /\ last.warnings = IF Within(last.payload.ts, last.at, 2 * timestamp_window_seconds)
                           THEN <<>>
                           ELSE <<"Timestamp outside valid window">>

\* A probe response older than 2W was accepted with a warning, and one
\* exactly 2W old would be accepted without.
ProbeFreshnessWitness ==
    /\ last.path = "coap" /\ last.valid
    /\ last.warnings # <<>>
    /\ last.at - InstantOf(last.payload.ts) = 2 * timestamp_window_seconds + 1

\* C11: a probe leaves the nonce cache, every rate-limit bucket and the
\* limiter's statistics as they were; the same response polled again
\* after an accepted poll is accepted again; a broker message whose nonce
\* the broker path has not accepted before gets no replay error, whatever
\* the probes have carried.
ProbeFrame ==
    /\ [][coap_stats' # coap_stats =>
             /\ nonce_cache' = nonce_cache
             /\ limiters' = limiters
             /\ rl_stats' = rl_stats]_vars
    /\ [][(/\ coap_stats' # coap_stats
           /\ last.path = "coap" /\ last.valid
           /\ last'.payload = last.payload) => last'.valid]_vars
    /\ [][(stats' # stats /\ ~last'.replay) =>
             ~Contains("Nonce already used (replay attack)", last'.errors)]_vars

\* A probe response with nonce n1 was accepted, and after it a broker
\* message with the same nonce was accepted too.
ProbeFrameWitness ==
    /\ coap_stats.successful_requests = 1
    /\ last.path = "mqtt" /\ last.valid /\ last.payload.nonce = "n1"

\* C12: every DTO posted to the cloud, from the broker path or from the
\* probe path, carries security_validated = TRUE.
EveryDtoValidated ==
    /\ \A i \in 1..Len(inflight) : inflight[i].dto.security_validated
    /\ done.state # "none" => done.dto.security_validated

RECURSIVE CallsReturned(_)
CallsReturned(n) == IF n = 0 THEN 0 ELSE tasks[n].calls + CallsReturned(n - 1)

\* C13: with no time passing, under every interleaving of the callers the
\* calls admitted for the sensor number at most burst_capacity; whenever
\* all calls made have returned, total_requests = allowed_requests +
\* blocked_requests = the number of calls made.
ConcurrentAdmission ==
    LET st == rl_stats[ConcSensor]
        admitted == st.allowed_requests
                    + Cardinality({i \in 1..MaxTasks :
                                      tasks[i].pc = "account" /\ tasks[i].allowed})
    IN  /\ admitted <= rate_limiter.burst_capacity
        /\ (\A i \in 1..MaxTasks : tasks[i].pc = "idle") =>
              /\ st.total_requests = st.allowed_requests + st.blocked_requests
              /\ st.total_requests = CallsReturned(MaxTasks)

\* Two callers are between the bucket call and the accounting at once, one
\* admitted and one throttled, while a third waits at the lock.
ConcurrentAdmissionWitness ==
    /\ rate_limiter.algorithm = "token_bucket"
    /\ \E i, j, k \in 1..MaxTasks :
          /\ tasks[i].pc = "account" /\ tasks[i].allowed
          /\ tasks[j].pc = "account" /\ ~tasks[j].allowed
          /\ tasks[k].pc = "lock"

\* The time of the latest call a bucket has served (its creation, if none)
LastTouched(bucket) ==
    IF "last_refill" \in DOMAIN bucket THEN bucket.last_refill ELSE bucket.last_leak

\* What a bucket holds, as tokens left: the token bucket's tokens, the
\* leaky bucket's free room
TokensLeft(bucket) ==
    IF "tokens" \in DOMAIN bucket
    THEN bucket.tokens
    ELSE bucket.capacity * TokenUnit - bucket.level

\* C14: a call for sensor a creates a's bucket on first sight (token bucket
\* full, leaky bucket empty, so the call is admitted and one token is
\* gone) and leaves every other sensor's bucket, statistics and next
\* verdict as they were.
SensorIsolation ==
    [][\A a \in TopicIds :
          rl_stats'[a].total_requests # rl_stats[a].total_requests =>
             /\ \A b \in TopicIds \ {a} :
                   /\ limiters'[b] = limiters[b]
                   /\ rl_stats'[b] = rl_stats[b]
                   /\ check_rate_limit(rate_limiter, limiters', rl_stats', b, now').allowed
                         = check_rate_limit(rate_limiter, limiters, rl_stats, b, now).allowed
             /\ ~limiters[a].exists =>
                   /\ limiters'[a].exists
                   /\ limiters'[a].capacity = rate_limiter.burst_capacity
                   /\ TokensLeft(limiters'[a]) = (rate_limiter.burst_capacity - 1) * TokenUnit
                   /\ rl_stats'[a] = [total_requests |-> 1, allowed_requests |-> 1,
                                      blocked_requests |-> 0]]_vars

\* temp-01 was throttled, and wind-01's first call, made later, was
\* admitted.
SensorIsolationWitness ==
    /\ rl_stats["temp-01"].blocked_requests > 0
    /\ rl_stats["wind-01"] = [total_requests |-> 1, allowed_requests |-> 1,
                              blocked_requests |-> 0]
    /\ LastTouched(limiters["temp-01"]) < admit_log["wind-01"][1]

\* C15: a call made when the sensor's bucket has served no call for at
\* least one inter-arrival period (60 / messages_per_minute seconds) is
\* admitted, whatever the bucket held before.
RefillThenConsume ==
    [][\A s \in TopicIds :
          (/\ rl_stats'[s].total_requests = rl_stats[s].total_requests + 1
           /\ limiters[s].exists
           /\ (now - LastTouched(limiters[s])) * rate_limiter.messages_per_minute
                 >= TokenUnit) =>
             rl_stats'[s].allowed_requests = rl_stats[s].allowed_requests + 1]_vars

\* A token bucket was emptied and throttled a call; after an idle period
\* the next call was admitted on the token refilled meanwhile.
RefillThenConsumeWitness ==
    /\ rate_limiter.algorithm = "token_bucket"
    /\ limiters["temp-01"].exists
    /\ rl_stats["temp-01"].blocked_requests > 0
    /\ Len(admit_log["temp-01"]) = rate_limiter.burst_capacity + 1
    /\ admit_log["temp-01"][Len(admit_log["temp-01"])] = now
    /\ limiters["temp-01"].tokens = 0

\* The bucket of the other algorithm that corresponds to a bucket:
\* tokens = capacity - level, same capacity, rate and time of last call
Mirror(bucket) ==
    IF "tokens" \in DOMAIN bucket
    THEN [exists |-> TRUE, capacity |-> bucket.capacity, leak_rate |-> bucket.refill_rate,
          level |-> bucket.capacity * TokenUnit - bucket.tokens,
          last_leak |-> bucket.last_refill]
    ELSE [exists |-> TRUE, capacity |-> bucket.capacity, refill_rate |-> bucket.leak_rate,
          tokens |-> bucket.capacity * TokenUnit - bucket.level,
          last_refill |-> bucket.last_leak]

\* C16: the two algorithms start in corresponding states, and from
\* corresponding states a call at any later time gets the same verdict
\* from both and leaves them in corresponding states (tokens = capacity -
\* level); so they agree on every call of every sequence.
AlgorithmEquivalence ==
    /\ Mirror(TokenBucket(rate_limiter.burst_capacity,
                          rate_limiter.messages_per_minute, now))
          = LeakyBucket(rate_limiter.burst_capacity, rate_limiter.messages_per_minute, now)
    /\ \A s \in TopicIds :
          limiters[s].exists =>
             LET tb == IF "tokens" \in DOMAIN limiters[s]
                       THEN limiters[s] ELSE Mirror(limiters[s])
             IN  \A t \in now..MaxRateTime :
                    /\ consume(tb, t).allowed = add(Mirror(tb), t).allowed
                    /\ Mirror(consume(tb, t).bucket) = add(Mirror(tb), t).bucket

\* A leaky bucket filled up, throttled a call, leaked and admitted again.
AlgorithmEquivalenceWitness ==
    /\ rate_limiter.algorithm = "leaky_bucket"
    /\ limiters["temp-01"].exists
    /\ rl_stats["temp-01"].blocked_requests > 0
    /\ Len(admit_log["temp-01"]) > rate_limiter.burst_capacity
    /\ limiters["temp-01"].level > 0

\* The abstract mapping a dict stands for, sig left out
MappingOf(d) == {d[i] : i \in {j \in 1..Len(d) : d[j][1] # "sig"}}

\* C17: two dicts that are the same mapping apart from sig, in whatever
\* insertion order and with or without a sig item, have the same
\* canonical form and the same signature under a key, and the signature
\* made for one verifies against the other.
CanonOrderIndependent ==
    MappingOf(hv.other) = MappingOf(hv.payload) =>
        /\ hv.canon2 = hv.canon
        /\ hv.key2 = hv.key => (hv.sig2 = hv.sig /\ hv.verified)

\* A signature made for a two-item dict without sig verified against the
\* dict that carries a sig item first and then the two items in reverse
\* order.
CanonOrderIndependentWitness ==
    /\ hv.stage = "verified" /\ hv.verified
    /\ Len(hv.payload) = 2 /\ Len(hv.other) = 3
    /\ hv.other[1][1] = "sig"
    /\ hv.other[2] = hv.payload[2] /\ hv.other[3] = hv.payload[1]

\* C18: a signature generated for a dict under a key verifies against a
\* dict and a key iff the two dicts are the same mapping apart from sig
\* and the keys are equal; a changed value, an added or removed field or
\* another key makes verification fail.
TamperDetected ==
    hv.stage # "none" =>
        (hv.verified <=>
            (MappingOf(hv.other) = MappingOf(hv.payload) /\ hv.key2 = hv.key))

\* Under the right key, a dict that differs from the signed one in the
\* value of one field only failed verification.
TamperDetectedWitness ==
    /\ hv.stage = "verified" /\ ~hv.verified /\ hv.key2 = hv.key
    /\ Len(hv.payload) = MaxFields /\ Len(hv.other) = Len(hv.payload)
    /\ \E i \in 1..Len(hv.payload) :
          /\ hv.payload[i][1] = "value"
          /\ hv.other[i][1] = "value" /\ hv.other[i][2] # hv.payload[i][2]
          /\ \A j \in (1..Len(hv.payload)) \ {i} : hv.other[j] = hv.payload[j]

\* Ciphertexts that authenticate and hold an object with a value, and
\* ciphertexts whose tag check, decoding or parsing as an object fails
EncOk(payload) == payload.enc /\ payload.encrypted_data \in {"ct_ok", "ct_notype"}
EncFail(payload) ==
    payload.enc /\ payload.encrypted_data \in {"ct_bad", "ct_notjson", "ct_pairs"}

\* C19: an accepted envelope with enc true and a ciphertext that decrypts
\* yields a record with the plaintext's value, the plaintext's type when
\* it has one (the envelope's otherwise) and decrypted = TRUE; on the
\* broker path such an envelope is
\* accepted and forwarded when the other gates pass; when the tag check,
\* the decoding or the parsing of the plaintext as an object fails the
\* envelope is rejected and nothing is forwarded.
EncryptedForwarded ==
    /\ (last.path # "none" /\ EncOk(last.payload) /\ last.valid) =>
          /\ last.telemetry[1].value = Plaintext.value
          /\ last.telemetry[1].decrypted
          /\ last.telemetry[1].sensor_type
                = IF last.payload.encrypted_data = "ct_ok"
                  THEN Plaintext.type ELSE last.payload.type
    /\ (/\ last.path = "mqtt" /\ EncOk(last.payload) /\ last.admitted
        /\ SignedUnder(last.payload, KeyOf(last.sensor_id))
        /\ Within(last.payload.ts, last.at, timestamp_window_seconds)) =>
          last.valid /\ last.sent
    /\ (last.path # "none" /\ EncFail(last.payload)) =>
          ~last.valid /\ ~last.sent /\ last.telemetry = None

\* The sensor kinds the specification knows
KnownKinds == {"temperature", "humidity", "wind"}

\* C20: an envelope is accepted only if its value, decrypted where
\* encrypted, is not null and its type is one of the known sensor kinds.
FinalSanity ==
    (last.path # "none" /\ last.valid) =>
        /\ last.telemetry[1].value # None
        /\ last.telemetry[1].sensor_type \in KnownKinds

\* C21: two forwards made while the token of the earlier one is more than
\* 60 s from its expiry carry the same token, and the token attached to a
\* POST is unexpired when the POST is issued.
TokenCached ==
    /\ \A i, j \in 1..Len(inflight) :
          (i < j /\ inflight[j].at < inflight[i].token.exp - 60) =>
             inflight[j].token = inflight[i].token
    /\ \A i \in 1..Len(inflight) : inflight[i].at < inflight[i].token.exp

\* C22: a probe response is handed to the forwarder, once, iff it passes
\* validation, whether it was obtained by the fan-out poll or by a
\* single-sensor probe.
ProbeForwarded ==
    last.path = "coap" =>
        /\ last.sent <=> last.valid
        /\ last.sent =>
              Cardinality({i \in 1..Len(inflight) :
                              inflight[i].path = "coap" /\ inflight[i].msg = last.id}) = 1

\* An envelope that every gate has to pass: signed under the key of the
\* topic's sensor, fresh, its nonce not accepted before, carrying a plain
\* value or a ciphertext that decrypts to one
PassesGates(m) ==
    /\ SignedUnder(m.payload, KeyOf(m.sensor_id))
    /\ Within(m.payload.ts, m.at, timestamp_window_seconds)
    /\ ~m.replay
    /\ \/ ~m.payload.enc /\ m.payload.value # None
       \/ EncOk(m.payload)

ShortCircuit ==
    last.path = "mqtt" =>
        /\ (/\ TelemetryPayloadOk(last.payload)
            /\ \/ ~last.admitted
               \/ ~SignedUnder(last.payload, KeyOf(last.sensor_id))
               \/ ~Within(last.payload.ts, last.at, timestamp_window_seconds)) =>
              Len(last.errors) = 1
        /\ ~TelemetryPayloadOk(last.payload) =>
              rl_stats[last.sensor_id].total_requests < last.id

\* C26: of two handlers that are running at the same time on envelopes
\* carrying the same nonce, at most one accepts its envelope.
AtomicCheckAndRecord ==
    \A i, j \in 1..Len(handled) :
        (/\ i < j
         /\ handled[i].nonce = handled[j].nonce
         /\ Waiting(i)) =>
            ~(handled[i].outcome = "valid" /\ handled[j].outcome = "valid")

EncImpliesCiphertext ==
    (last.path # "none" /\ last.payload.enc /\ (last.valid \/ last.sent)) =>
        /\ last.payload.encrypted_data # Absent
        /\ PlaintextOf(last.payload.encrypted_data) # None
        /\ last.telemetry[1].decrypted

\* C30: a result of the broker-path validator that carries errors after
\* the structural parse carries at least one security event, and a result
\* that is valid carries none.
EveryFailureReported ==
    (last.path = "mqtt" /\ ~last.raised /\ TelemetryPayloadOk(last.payload)) =>
        /\ last.errors # <<>> => last.security_events # <<>>
        /\ last.valid => last.security_events = <<>>

\* The count kept under the key "malformed" of the worker's statistics
MalformedCount(st) == IF "malformed" \in DOMAIN st THEN st.malformed ELSE 0

\* C31: a broker message whose envelope fails the structural parse is
\* counted as malformed, and as nothing else.
MalformedCounted ==
    (last.path = "mqtt" /\ ~TelemetryPayloadOk(last.payload)) =>
        /\ MalformedCount(stats) > 0
        /\ stats.invalid_timestamps = 0

\* The ways the signature step can fail for a key and an envelope
SignatureFailure(key, payload) ==
    \/ key = ""
    \/ fromhex_raises(key)
    \/ payload.sig = <<>>
    \/ payload.sig \in {GarbledSig, NonAsciiSig}

\* C32: the verifier returns a verdict and never raises; when the sensor has
\* no key, when sig is empty, when sig is not a well-formed signature and
\* when the key is not hex (where generating a signature raises), the
\* verdict is false and the envelope is rejected with a signature error,
\* not forwarded, and the handler does not raise.
VerifierRejects ==
    LET key == KeyOf(last.sensor_id)
        verdict == verify_hmac_signature(last.payload, last.payload.sig, key)
    IN  (last.path = "mqtt" /\ TelemetryPayloadOk(last.payload)) =>
            /\ verdict \in {"True", "False"}
            /\ SignatureFailure(key, last.payload) =>
                    /\ verdict = "False"
                    /\ ~last.valid /\ ~last.sent /\ ~last.raised
                    /\ \E i \in 1..Len(last.errors) :
                          last.errors[i] \in {"No HMAC key configured for sensor",
                                              "Missing signature", "Invalid HMAC signature"}

\* C32 happens: temp-01's key is not hex, so that generating a signature
\* raises, and a reading signed by its sensor was rejected as badly signed
VerifierRejectsWitness ==
    /\ last.path = "mqtt" /\ last.sensor_id = "temp-01"
    /\ fromhex_raises(KeyOf("temp-01"))
    /\ SignedUnder(last.payload, "k_temp")
    /\ last.errors = <<"Invalid HMAC signature">>
    /\ ~last.valid /\ ~last.raised

\* C33: GET /health reports mqtt_connected exactly when the broker session
\* is established, and healthy exactly when moreover the probe client is
\* started and the cloud HTTP client exists; before the broker has accepted
\* the session and after the session is lost it reports degraded.
HealthReflectsBroker ==
    conn.health.status # "none" =>
        /\ conn.health.mqtt_connected <=> (conn.health.session = "connected")
        /\ (conn.health.status = "healthy") <=>
                /\ conn.health.session = "connected"
                /\ conn.health.coap_client_ready
                /\ conn.health.cloud_client_ready

\* C34: whenever the broker has accepted the session, the worker holds the
\* subscription greenhouse/+/telemetry at QoS 1, after the first connect
\* and after every reconnect, and a message is delivered only to a
\* subscribed session; a refused connect leaves no subscription; the loss
\* of the connection leaves the created tasks and the waiting sends alone.
ResubscribeKeepsWork ==
    /\ [](conn.session = "connected" => conn.subscribed = {TelemetrySubscription})
    /\ [](conn.session = "refused" => conn.subscribed = {})
    /\ [][ready'.delivered > ready.delivered =>
            conn.session = "connected" /\ TelemetrySubscription \in conn.subscribed]_vars
    /\ [][(conn.session = "connected" /\ conn'.session = "lost") =>
            inflight' = inflight /\ ready' = ready]_vars

\* C34 happens: the session was lost while work was under way, the worker
\* has connected a second time and is subscribed again, and a send is
\* still waiting
ResubscribeKeepsWorkWitness ==
    /\ conn.connects = 2 /\ conn.session = "connected"
    /\ conn.subscribed = {TelemetrySubscription}
    /\ conn.kept > 0
    /\ Len(inflight) > 0

\* C35: when the HTTP client is closed at shutdown, no send of a record
\* that was validated before the shutdown began is still waiting for its
\* POST: the forwarder has drained.
DrainedBeforeClose == conn.lifespan = "closed" => conn.aborted = {}

\* C36: every bucket holds between 0 and capacity tokens (token bucket) or
\* a level between 0 and capacity (leaky bucket), whatever the calls and
\* whatever the clock does between them, steps backwards included.
BucketLevelInvariant ==
    \A s \in TopicIds :
        limiters[s].exists =>
            IF "tokens" \in DOMAIN limiters[s]
            THEN /\ 0 <= limiters[s].tokens
                 /\ limiters[s].tokens <= limiters[s].capacity * TokenUnit
            ELSE /\ 0 <= limiters[s].level
                 /\ limiters[s].level <= limiters[s].capacity * TokenUnit

\* C37: on the broker path an envelope that was accepted once is not
\* accepted again while its ts is within the window of now, whatever
\* arrived in between (here a nonce names one envelope of temp-01).
NoReplayInWindow ==
    \A i, j \in 1..Len(handled) :
        (/\ i < j
         /\ handled[i].nonce = handled[j].nonce
         /\ handled[i].outcome = "valid"
         /\ Within(ReplayTs, now, timestamp_window_seconds)) =>
            handled[j].outcome # "valid"

\* C38: valid_messages never exceeds total_messages, and a rejected broker
\* message is counted under its failure kind: one rejected because
\* decryption failed under encryption_failures, one rejected for a missing
\* key or a signature that does not verify under invalid_signatures.
RejectionsCounted ==
    /\ stats.valid_messages <= stats.total_messages
    /\ (last.path = "mqtt" /\ ~last.valid /\ ~last.raised) =>
          /\ Contains("Failed to decrypt payload", last.errors) =>
                stats.encryption_failures > 0
          /\ (\/ Contains("No HMAC key configured for sensor", last.errors)
              \/ Contains("Invalid HMAC signature", last.errors)) =>
                stats.invalid_signatures > 0

\* The four gates, the switch of each, the errors each one rejects with
\* and the verdict flag it leaves in the processed record
Gates == {"signature", "timestamp", "nonce", "rate"}

GateEnabled(cfg, g) ==
    CASE g = "signature" -> cfg.enable_signature_verification
      [] g = "timestamp" -> cfg.enable_timestamp_validation
      [] g = "nonce" -> cfg.enable_nonce_validation
      [] g = "rate" -> cfg.enable_rate_limiting

GateRejects(g, errors) ==
    \E i \in 1..Len(errors) :
        errors[i] \in
            CASE g = "signature" -> {"No HMAC key configured for sensor",
                                     "Missing signature", "Invalid HMAC signature"}
              [] g = "timestamp" -> {"Timestamp outside valid window"}
              [] g = "nonce" -> {"Nonce already used (replay attack)"}
              [] g = "rate" -> {"Rate limit exceeded"}

GateVerdict(g, telemetry) ==
    CASE g = "signature" -> telemetry.signature_valid
      [] g = "timestamp" -> telemetry.timestamp_valid
      [] g = "nonce" -> telemetry.nonce_valid
      [] g = "rate" -> telemetry.rate_limit_passed

\* C39: with exactly one gate switched off, that gate rejects no broker
\* message, its verdict flag in the processed record is true and its state
\* (the buckets, the nonce cache) is never created or changed, and every
\* other gate rejects a message exactly when it rejects it with all four
\* gates switched on.
KillSwitchIsolation ==
    [][stats'.total_messages = stats.total_messages + 1 =>
        LET m == last'
            all_on == SecurityConfig(config.sensor_hmac_keys, TRUE, TRUE, TRUE, TRUE)
            limiter == IF rate_limiter = NoLimiter
                       THEN RateLimiter(messages_per_minute, burst_capacity, "token_bucket")
                       ELSE rate_limiter
            ref == validate_telemetry_under(all_on, m.sensor_id, m.payload, limiter,
                                            limiters, rl_stats, nonce_cache, now)
        IN  \A g \in Gates :
                IF GateEnabled(config, g)
                THEN GateRejects(g, m.errors) <=> GateRejects(g, ref.errors)
                ELSE /\ ~GateRejects(g, m.errors)
                     /\ m.valid => GateVerdict(g, m.telemetry[1])
                     /\ g = "nonce" => nonce_cache' = <<>>
                     /\ g = "rate" =>
                            /\ rate_limiter = NoLimiter
                            /\ limiters' = [s \in TopicIds |-> NoBucket]
                            /\ rl_stats' = [s \in TopicIds |-> NoStats]]_vars

\* C39 happens: signature verification is switched off, an unsigned
\* reading of temp-01 was accepted, and the next one is turned away by the
\* rate gate alone
KillSwitchIsolationWitness ==
    /\ ~config.enable_signature_verification
    /\ Len(handled) = 2 /\ handled[1].outcome = "valid"
    /\ last.path = "mqtt" /\ last.payload.sig = <<>>
    /\ last.errors = <<"Rate limit exceeded">>

\* C40: a probe of a sensor's host that succeeds returns, and forwards, a
\* reading whose sensor_id is that of the sensor asked for; an answer
\* validly signed by another registered sensor is not taken for it.
ProbeIdentityBound ==
    (last.path = "coap" /\ last.valid) =>
        /\ last.telemetry[1].sensor_id = last.requested
        /\ \A i \in 1..Len(inflight) :
              (inflight[i].path = "coap" /\ inflight[i].msg = last.id) =>
                  inflight[i].dto.sensor_id = last.requested

=============================================================================
